---- MODULE Spec2Model ----
(***************************************************************************)
(* pg_log (src/pg_log.c): the tail sampling of the current log file, the   *)
(* line split of pg_log() and pg_log_refresh(), and the background worker  *)
(* loop pg_log_main().                                                     *)
(*                                                                         *)
(* A byte is a string; a buffer, a line and a file are sequences of bytes. *)
(* C indexes are 0-based and kept 0-based here: byte k of a buffer b is    *)
(* b[k + 1].                                                               *)
(***************************************************************************)
EXTENDS Integers, Sequences, FiniteSets, TLC

VARIABLES
    file,            \* content of the current log file
    conf,            \* postgresql.conf: [fraction, naptime]
    pg_log_fraction, \* GUC pg_log.fraction of the process, <<num, den>>
    pg_log_naptime,  \* GUC pg_log.naptime of the process
    g_result,        \* data bytes of the text returned by pg_read_file
    pad,             \* the VARHDRSZ bytes the scans found in memory after
                     \* g_result's data
    g_logdata,       \* the scan cursor
    tupstore,        \* rows materialised by the last pg_log() call
    pglog,           \* committed contents of table pglog
    txTable,         \* table pglog as seen inside the open transaction
    ret,             \* outcome of the last call: [op, err, errLine]
    probe,           \* what the last scans met: [size, start, maxRead, maxWrite],
                     \* size the st_size that stat returned
    published,       \* under what the rows of pglog were committed:
                     \* [fraction, whole], whole when the file had st_size
                     \* bytes at the read
    pc,              \* position of the worker in pg_log_main
    got_sighup,
    got_sigterm,
    latch,           \* MyLatch is set
    rc,              \* WaitLatch returned WL_POSTMASTER_DEATH
    wake,            \* flags that were pending when WaitLatch returned, kept
                     \* until the wake-up starts its transaction: [term, hup]
    termCycles,      \* cycles the worker started with got_sigterm set
    bk               \* a client backend that runs pg_log(), with the statics
                     \* of its own process: [pc, g_result, pad, g_logdata, rows]

vars == <<file, conf, pg_log_fraction, pg_log_naptime, g_result, pad, g_logdata,
          tupstore, pglog, txTable, ret, probe, published, pc, got_sighup,
          got_sigterm, latch, rc, wake, termCycles, bk>>

---------------------------------------------------------------------------
(* Bytes *)

NL == "nl"
NUL == "nul"

\* Bytes of a log file: pg_read_file returns text, which holds no NUL.
DataBytes == {"a", NL}

\* Values a byte outside the returned text may hold: a newline, or "g" for
\* any other byte.
PadBytes == {"g", NL}

\* #define PG_LOG_MAX_LINE_SIZE 32768, scaled down
PG_LOG_MAX_LINE_SIZE == 5

\* size of the varlena header, char vl_len_[4]
VARHDRSZ == 4

\* longest log file
MaxFileLen == 6

\* longest of the log files of one long line
MaxLongLen == 10

\* bytes a log file may lose between stat and pg_read_file
Shrunk == 2

\* highest count kept of the cycles started with got_sigterm set
MaxTermCycles == 2

Max(a, b) == IF a >= b THEN a ELSE b
Min(a, b) == IF a <= b THEN a ELSE b

RECURSIVE SeqsUpTo(_, _)
SeqsUpTo(S, n) ==
    IF n = 0 THEN {<<>>}
    ELSE LET shorter == SeqsUpTo(S, n - 1)
         IN shorter \cup {Append(s, x) : s \in {t \in shorter : Len(t) = n - 1}, x \in S}

\* log files of one unterminated line longer than MaxFileLen
LongFiles == {[k \in 1..n |-> "a"] : n \in (MaxFileLen + 1)..MaxLongLen}

Files == SeqsUpTo(DataBytes, MaxFileLen) \cup LongFiles

\* st_size values stat may have returned for a file that holds f when it is
\* read: its length, or more when the file was truncated or rotated since
StatSizes(f) == {Len(f), Len(f) + Shrunk}

Pads == [1..VARHDRSZ -> PadBytes]

\* pg_log.fraction as <<numerator, denominator>>: 1/2, 3/4 and 1.0, all exact
\* in binary floating point
Fractions == {<<1, 2>>, <<3, 4>>, <<1, 1>>}

FractionIsOne(f) == f[1] = f[2]

---------------------------------------------------------------------------
(* The text returned by pg_read_file and the cursor g_logdata *)

\* VARSIZE counts the header as well as the data
VARSIZE(data) == Len(data) + VARHDRSZ

\* *(VARDATA(p) + k): the data, then whatever lies after it
VARDATA(data, pd, k) ==
    IF k < Len(data) THEN data[k + 1] ELSE pd[k - Len(data) + 1]

logdata_start ==
    [char_count |-> 0, line_count |-> 0, i |-> 0, max_line_size |-> 0,
     first_newline_position |-> -1]

\* logdata_start_from_newline that keeps the line count of the scan before
logdata_start_keeps_count(ld, fraction) ==
    [ld EXCEPT !.char_count = IF ~FractionIsOne(fraction)
                              THEN ld.first_newline_position + 1
                              ELSE 0,
               !.i = 0]

logdata_start_from_newline(ld, fraction) ==
    [ld EXCEPT !.char_count = IF ~FractionIsOne(fraction)
                              THEN ld.first_newline_position + 1
                              ELSE 0,
               !.line_count = 0,
               !.i = 0]

logdata_has_more(ld, data) == ld.char_count < VARSIZE(data)

logdata_next(ld) == [ld EXCEPT !.char_count = @ + 1, !.i = @ + 1]

logdata_get(ld, data, pd) == VARDATA(data, pd, ld.char_count)

logdata_incr_line_count(ld) == [ld EXCEPT !.line_count = @ + 1]

logdata_set_max_line_size(ld) == [ld EXCEPT !.max_line_size = ld.i]

logdata_index_gt_max_line_size(ld) == ld.i > ld.max_line_size

logdata_reset_index(ld) == [ld EXCEPT !.i = 0]

logdata_set_first_newline_position(ld, pos) ==
    [ld EXCEPT !.first_newline_position = pos]

---------------------------------------------------------------------------
(* pg_read_internal: the byte range, the read, the diagnostic scan *)

\* offset = st_size * (1 - pg_log_fraction), truncated to int64
TailOffset(size, fraction) == (size * (fraction[2] - fraction[1])) \div fraction[2]

\* length = st_size * pg_log_fraction, truncated to int64
TailLength(size, fraction) == (size * fraction[1]) \div fraction[2]

\* pg_read_file that does not seek to offset
pg_read_file_no_seek(f, offset, length) ==
    SubSeq(f, 1, Min(length, Len(f)))

\* pg_read_file(name, offset, length): at most length bytes from offset on
pg_read_file(f, offset, length) ==
    SubSeq(f, offset + 1, Min(offset + length, Len(f)))

\* one iteration of the loop "check returned data"; s = [ld, fnp, maxRead],
\* fnp the local first_newline_position
CheckStep(data, pd, s) ==
    LET c == logdata_get(s.ld, data, pd)
        fnp1 == IF c = NL /\ s.fnp = 0 THEN s.ld.i ELSE s.fnp
        ld1 == IF c = NL
               THEN LET counted == logdata_incr_line_count(s.ld)
                    IN logdata_reset_index(
                           IF logdata_index_gt_max_line_size(counted)
                           THEN logdata_set_max_line_size(counted)
                           ELSE counted)
               ELSE s.ld
    IN [ld |-> logdata_next(ld1), fnp |-> fnp1,
        maxRead |-> Max(s.maxRead, s.ld.char_count)]

\* the loop; each iteration is computed once and the loop goes on from its
\* value
RECURSIVE CheckScan(_, _, _)
CheckScan(data, pd, s) ==
    IF logdata_has_more(s.ld, data)
    THEN CHOOSE r \in {CheckScan(data, pd, n) : n \in {CheckStep(data, pd, s)}} : TRUE
    ELSE s

\* pg_read_internal with a file of size bytes at stat time and content f at
\* read time: [result, ld, maxRead]
pg_read_internal(size, f, fraction, pd) ==
    LET result == pg_read_file(f, TailOffset(size, fraction), TailLength(size, fraction))
        scanned == CheckScan(result, pd, [ld |-> logdata_start, fnp |-> 0, maxRead |-> -1])
    IN [result |-> result,
        ld |-> IF FractionIsOne(fraction)
               THEN logdata_set_first_newline_position(scanned.ld, 0)
               ELSE logdata_set_first_newline_position(scanned.ld, scanned.fnp),
        maxRead |-> scanned.maxRead]

---------------------------------------------------------------------------
(* The line split of pg_log_internal and of pg_log_refresh_internal *)

\* buf_v2[i] = c on the array kept as the sequence of its bytes written so far
WriteAt(buf, i, c) ==
    [k \in 1..Max(Len(buf), i + 1) |-> IF k = i + 1 THEN c ELSE buf[k]]

\* a C string read as text: the bytes before the first NUL
RECURSIVE CString(_)
CString(buf) ==
    IF buf = <<>> \/ Head(buf) = NUL THEN <<>>
    ELSE <<Head(buf)>> \o CString(Tail(buf))

\* state of a line split: the cursor, the local i, buf_v2, the rows produced,
\* the error raised, and the highest indexes read and written
SplitStart(ld, fraction) ==
    [ld |-> logdata_start_from_newline(ld, fraction), i |-> 0, buf_v2 |-> <<>>,
     rows |-> <<>>, err |-> "none", errLine |-> 0, maxRead |-> -1, maxWrite |-> -1]

\* one iteration of the for loop of pg_log_internal; buf_v2, declared in the
\* loop body, keeps one place on the stack and with it the bytes written by
\* the earlier iterations
PgLogStep(data, pd, s) ==
    LET c == logdata_get(s.ld, data, pd)
        written == WriteAt(s.buf_v2, s.i, c)
        touched == [s EXCEPT !.maxRead = Max(@, s.ld.char_count),
                             !.maxWrite = Max(@, s.i)]
    IN IF s.ld.i > PG_LOG_MAX_LINE_SIZE - 1
       THEN [touched EXCEPT !.buf_v2 = written, !.err = "toolong",
                            !.errLine = s.ld.line_count + 1]
       ELSE IF c = NL
       THEN LET ended == WriteAt(written, s.i, NUL)
                row == [lineno |-> s.ld.line_count, message |-> CString(ended)]
            IN [touched EXCEPT
                   !.buf_v2 = ended,
                   !.rows = Append(@, row),
                   !.ld = logdata_next(logdata_reset_index(logdata_incr_line_count(s.ld))),
                   !.i = 0]
       ELSE [touched EXCEPT !.buf_v2 = written, !.ld = logdata_next(s.ld), !.i = s.i + 1]

RECURSIVE PgLogLoop(_, _, _)
PgLogLoop(data, pd, s) ==
    IF s.err = "none" /\ logdata_has_more(s.ld, data)
    THEN CHOOSE r \in {PgLogLoop(data, pd, n) : n \in {PgLogStep(data, pd, s)}} : TRUE
    ELSE s

\* one iteration of the for loop of pg_log_refresh_internal
PgLogRefreshStep(data, pd, s) ==
    LET c == logdata_get(s.ld, data, pd)
        written == WriteAt(s.buf_v2, s.i, c)
        touched == [s EXCEPT !.maxRead = Max(@, s.ld.char_count),
                             !.maxWrite = Max(@, s.i)]
    IN IF s.ld.i > PG_LOG_MAX_LINE_SIZE - 1
       THEN [touched EXCEPT !.buf_v2 = written, !.err = "toolong",
                            !.errLine = s.ld.line_count + 1]
       ELSE IF c = NL
       THEN LET ended == WriteAt(written, s.i, NUL)
                counted == logdata_reset_index(logdata_incr_line_count(s.ld))
                row == [id |-> counted.line_count, message |-> CString(ended)]
            IN [touched EXCEPT
                   !.buf_v2 = ended,
                   !.rows = Append(@, row),
                   !.ld = logdata_next(counted),
                   !.i = 0]
       ELSE [touched EXCEPT !.buf_v2 = written, !.ld = logdata_next(s.ld), !.i = s.i + 1]

RECURSIVE PgLogRefreshLoop(_, _, _)
PgLogRefreshLoop(data, pd, s) ==
    IF s.err = "none" /\ logdata_has_more(s.ld, data)
    THEN CHOOSE r \in {PgLogRefreshLoop(data, pd, n) :
                           n \in {PgLogRefreshStep(data, pd, s)}} : TRUE
    ELSE s

---------------------------------------------------------------------------
(* State shared by the two specifications *)

\* rows left in table pglog by an earlier run of the worker
OldTable == <<[id |-> 1, message |-> <<"o">>]>>

NoCall == [op |-> "none", err |-> "none", errLine |-> 0]

NoProbe == [size |-> 0, start |-> 0, maxRead |-> -1, maxWrite |-> -1]

\* table pglog holds rows no cycle of this worker committed
NotPublished == [fraction |-> <<0, 1>>, whole |-> FALSE]

NoWake == [term |-> FALSE, hup |-> FALSE]

\* g_logdata is static storage, zero until logdata_start runs
ZeroLogdata ==
    [char_count |-> 0, line_count |-> 0, i |-> 0, max_line_size |-> 0,
     first_newline_position |-> 0]

\* outcomes of pg_get_logname_internal and of stat(): the log file is found
\* and stat succeeds, the SELECT on pg_ls_logdir() returns no row or several,
\* stat fails
ReadOutcomes == {"ok", "locator", "stat"}

\* a backend that has not called pg_log() yet
IdleBackend ==
    [pc |-> "idle", g_result |-> <<>>, pad |-> <<>>, g_logdata |-> ZeroLogdata,
     rows |-> <<>>]

---------------------------------------------------------------------------
(* SpecCall: one call of pg_log() or of pg_log_refresh() in a backend, on   *)
(* every file, fraction and memory content. A call starts from scratch     *)
(* (logdata_start), so what it does depends on no earlier call.            *)

InitCall ==
    /\ file \in Files
    /\ pg_log_fraction \in Fractions
    /\ pg_log_naptime = 1
    /\ conf = [fraction |-> pg_log_fraction, naptime |-> pg_log_naptime]
    /\ g_result = <<>>
    /\ pad = <<>>
    /\ g_logdata = ZeroLogdata
    /\ tupstore = <<>>
    /\ pglog = OldTable
    /\ txTable = <<>>
    /\ ret = NoCall
    /\ probe = NoProbe
    /\ published = NotPublished
    /\ pc = "unregistered"
    /\ got_sighup = FALSE
    /\ got_sigterm = FALSE
    /\ latch = FALSE
    /\ rc = FALSE
    /\ wake = NoWake
    /\ termCycles = 0
    /\ bk = IdleBackend

workerVars == <<pc, got_sighup, got_sigterm, latch, rc, wake>>

\* select * from pg_log(): pg_log_internal, the whole call
PgLog ==
    /\ pc = "unregistered"
    /\ ret.op = "none"
    /\ \E io \in ReadOutcomes :
          IF io # "ok"
          THEN /\ ret' = [op |-> "pg_log", err |-> io, errLine |-> 0]
               /\ tupstore' = <<>>
               /\ UNCHANGED <<g_result, pad, g_logdata, probe>>
          ELSE \E size \in StatSizes(file) : \E pd \in Pads :
                  \E rd \in {pg_read_internal(size, file, pg_log_fraction, pd)} :
                  \E first \in {SplitStart(rd.ld, pg_log_fraction)} :
                  \E done \in {PgLogLoop(rd.result, pd, first)} :
                     /\ g_result' = rd.result
                     /\ pad' = pd
                     /\ g_logdata' = done.ld
                     /\ tupstore' = done.rows
                     /\ ret' = [op |-> "pg_log", err |-> done.err, errLine |-> done.errLine]
                     /\ probe' = [size |-> size, start |-> first.ld.char_count,
                                  maxRead |-> Max(rd.maxRead, done.maxRead),
                                  maxWrite |-> done.maxWrite]
    /\ UNCHANGED <<file, bk, termCycles, conf, pg_log_fraction, pg_log_naptime, pglog, txTable,
                   published>>
    /\ UNCHANGED workerVars

\* select pg_log_refresh(): pg_log_refresh_internal in the statement's own
\* transaction, which commits when the call returns and aborts when it raises
PgLogRefresh ==
    /\ pc = "unregistered"
    /\ ret.op = "none"
    /\ \E io \in ReadOutcomes :
          IF io # "ok"
          THEN /\ ret' = [op |-> "pg_log_refresh", err |-> io, errLine |-> 0]
               /\ UNCHANGED <<g_result, pad, g_logdata, probe, pglog, txTable>>
          ELSE \E size \in StatSizes(file) : \E pd \in Pads :
                  \E rd \in {pg_read_internal(size, file, pg_log_fraction, pd)} :
                  \E first \in {SplitStart(rd.ld, pg_log_fraction)} :
                  \E done \in {PgLogRefreshLoop(rd.result, pd, first)} :
                     /\ g_result' = rd.result
                     /\ pad' = pd
                     /\ g_logdata' = done.ld
                     /\ txTable' = done.rows
                     /\ pglog' = IF done.err = "none" THEN done.rows ELSE pglog
                     /\ ret' = [op |-> "pg_log_refresh", err |-> done.err,
                                errLine |-> done.errLine]
                     /\ probe' = [size |-> size, start |-> first.ld.char_count,
                                  maxRead |-> Max(rd.maxRead, done.maxRead),
                                  maxWrite |-> done.maxWrite]
    /\ UNCHANGED <<file, bk, termCycles, conf, pg_log_fraction, pg_log_naptime, tupstore, published>>
    /\ UNCHANGED workerVars

NextCall == PgLog \/ PgLogRefresh

SpecCall == InitCall /\ [][NextCall]_vars

---------------------------------------------------------------------------
(* Spec: the background worker, pg_log_main, with the signals, the         *)
(* postmaster and postgresql.conf as its environment.                      *)

\* log files the worker meets: empty, one line, a first line followed by a
\* line too long for the buffer, two lines
WorkerFiles ==
    {<<>>,
     <<"a", NL>>,
     <<NL, "a", "a", "a", "a", "a">>,
     <<"a", NL, "a", NL>>}

\* settings postgresql.conf may hold
Configs == {[fraction |-> <<1, 2>>, naptime |-> 1], [fraction |-> <<1, 1>>, naptime |-> 2]}

Init ==
    /\ file \in WorkerFiles
    /\ conf \in Configs
    /\ pg_log_fraction = conf.fraction
    /\ pg_log_naptime = conf.naptime
    /\ g_result = <<>>
    /\ pad = <<>>
    /\ g_logdata = ZeroLogdata
    /\ tupstore = <<>>
    /\ pglog = OldTable
    /\ txTable = <<>>
    /\ ret = NoCall
    /\ probe = NoProbe
    /\ published = NotPublished
    /\ pc = "main"
    /\ got_sighup = FALSE
    /\ got_sigterm = FALSE
    /\ latch = FALSE
    /\ rc = FALSE
    /\ wake = NoWake
    /\ termCycles = 0
    /\ bk = IdleBackend

callVars == <<g_result, pad, g_logdata, tupstore, ret, probe>>
gucVars == <<pg_log_fraction, pg_log_naptime>>
tableVars == <<pglog, txTable, published>>
signalVars == <<got_sighup, got_sigterm, latch>>

\* the worker runs: it has installed its handlers and has not exited
Running == pc \notin {"main", "exit"}

\* elog(ERROR) inside the transaction: no handler in pg_log_main catches it,
\* the transaction is aborted and the worker process exits
RaiseError(kind, line) ==
    /\ ret' = [op |-> "pg_log_main", err |-> kind, errLine |-> line]
    /\ pc' = "exit"
    /\ pglog' = pglog
    /\ published' = published

\* pg_log_sigterm without SetLatch
pg_log_sigterm_no_latch ==
    /\ Running
    /\ ~got_sigterm
    /\ got_sigterm' = TRUE
    /\ latch' = latch
    /\ UNCHANGED <<file, bk, termCycles, conf, gucVars, callVars, tableVars, pc, got_sighup, rc, wake>>

\* pg_log_sigterm
pg_log_sigterm ==
    /\ Running
    /\ ~(got_sigterm /\ latch)
    /\ got_sigterm' = TRUE
    /\ latch' = TRUE
    /\ UNCHANGED <<file, bk, termCycles, conf, gucVars, callVars, tableVars, pc, got_sighup, rc, wake>>

\* pg_log_sighup that rereads the configuration in the handler
pg_log_sighup_reloads ==
    /\ Running
    /\ ~(got_sighup /\ latch)
    /\ got_sighup' = TRUE
    /\ latch' = TRUE
    /\ pg_log_fraction' = conf.fraction
    /\ pg_log_naptime' = conf.naptime
    /\ UNCHANGED <<file, bk, termCycles, conf, callVars, tableVars, pc, got_sigterm, rc, wake>>

\* pg_log_sighup
pg_log_sighup ==
    /\ Running
    /\ ~(got_sighup /\ latch)
    /\ got_sighup' = TRUE
    /\ latch' = TRUE
    /\ UNCHANGED <<file, bk, termCycles, conf, gucVars, callVars, tableVars, pc, got_sigterm, rc, wake>>

\* an administrator edits postgresql.conf
EditConf ==
    /\ pc # "exit"
    /\ \E c \in Configs \ {conf} : conf' = c
    /\ UNCHANGED <<file, bk, termCycles, gucVars, callVars, tableVars, workerVars>>

\* pqsignal, BackgroundWorkerUnblockSignals, BackgroundWorkerInitializeConnection
MainStart ==
    /\ pc = "main"
    /\ \E connected \in BOOLEAN :
          IF connected
          THEN pc' = "loop" /\ ret' = ret
          ELSE pc' = "exit" /\ ret' = [op |-> "pg_log_main", err |-> "connect", errLine |-> 0]
    /\ UNCHANGED <<file, bk, termCycles, conf, gucVars, g_result, pad, g_logdata, tupstore, probe,
                   tableVars, signalVars, rc, wake>>

\* while (!got_sigterm), and proc_exit(1) after the loop
LoopTest ==
    /\ pc = "loop"
    /\ pc' = IF got_sigterm THEN "exit" ELSE "wait"
    /\ UNCHANGED <<file, bk, termCycles, conf, gucVars, callVars, tableVars, signalVars, rc, wake>>

\* WaitLatch returns: the latch is set, the timeout of pg_log_naptime
\* seconds has elapsed, or the postmaster has died
WaitLatch ==
    /\ pc = "wait"
    /\ rc' \in BOOLEAN
    /\ wake' = [term |-> got_sigterm, hup |-> got_sighup]
    /\ pc' = "reset"
    /\ UNCHANGED <<file, bk, termCycles, conf, gucVars, callVars, tableVars, signalVars>>

\* ResetLatch, the emergency bailout, CHECK_FOR_INTERRUPTS (which does nothing
\* for the flags the two handlers set)
ResetLatch ==
    /\ pc = "reset"
    /\ latch' = FALSE
    /\ pc' = IF rc THEN "exit" ELSE "sighup"
    /\ wake' = IF rc THEN NoWake ELSE wake
    /\ UNCHANGED <<file, bk, termCycles, conf, gucVars, callVars, tableVars, got_sighup, got_sigterm, rc>>

\* ProcessConfigFile(PGC_SIGHUP)
ProcessConfigFile ==
    /\ pg_log_fraction' = conf.fraction
    /\ pg_log_naptime' = conf.naptime

\* CheckSighup that leaves got_sighup set
CheckSighupKeepsFlag ==
    /\ pc = "sighup"
    /\ IF got_sighup
       THEN got_sighup' = got_sighup /\ ProcessConfigFile
       ELSE UNCHANGED <<got_sighup, gucVars>>
    /\ pc' = "start"
    /\ UNCHANGED <<file, bk, termCycles, conf, callVars, tableVars, got_sigterm, latch, rc, wake>>

\* if (got_sighup) { got_sighup = false; ProcessConfigFile(PGC_SIGHUP); }
CheckSighup ==
    /\ pc = "sighup"
    /\ IF got_sighup
       THEN got_sighup' = FALSE /\ ProcessConfigFile
       ELSE UNCHANGED <<got_sighup, gucVars>>
    /\ pc' = "start"
    /\ UNCHANGED <<file, bk, termCycles, conf, callVars, tableVars, got_sigterm, latch, rc, wake>>

\* StartTransactionCommand, PushActiveSnapshot
StartTransaction ==
    /\ pc = "start"
    /\ txTable' = pglog
    /\ pc' = "read"
    /\ wake' = NoWake
    /\ termCycles' = IF got_sigterm THEN Min(termCycles + 1, MaxTermCycles) ELSE termCycles
    /\ UNCHANGED <<file, bk, conf, gucVars, callVars, pglog, published, signalVars, rc>>

\* pg_log_refresh_internal: pg_read_internal
RefreshRead ==
    /\ pc = "read"
    /\ \E io \in ReadOutcomes :
          IF io # "ok"
          THEN /\ RaiseError(io, 0)
               /\ UNCHANGED <<g_result, pad, g_logdata, probe>>
          ELSE \E size \in StatSizes(file) : \E pd \in Pads :
               \E rd \in {pg_read_internal(size, file, pg_log_fraction, pd)} :
                  /\ g_result' = rd.result
                  /\ pad' = pd
                  /\ g_logdata' = rd.ld
                  /\ probe' = [size |-> size, start |-> 0, maxRead |-> rd.maxRead,
                               maxWrite |-> -1]
                  /\ pc' = "truncate"
                  /\ UNCHANGED <<ret, pglog, published>>
    /\ UNCHANGED <<file, bk, termCycles, conf, gucVars, tupstore, txTable, signalVars, rc, wake>>

\* RefreshTruncate as a truncate that takes effect outside the transaction
RefreshTruncateAtOnce ==
    /\ pc = "truncate"
    /\ txTable' = <<>>
    /\ pglog' = <<>>
    /\ pc' = "insert"
    /\ UNCHANGED <<file, bk, termCycles, conf, gucVars, callVars, published, signalVars, rc, wake>>

\* pg_log_refresh_internal: SPI_connect, truncate table pglog, SPI_prepare
RefreshTruncate ==
    /\ pc = "truncate"
    /\ txTable' = <<>>
    /\ pc' = "insert"
    /\ UNCHANGED <<file, bk, termCycles, conf, gucVars, callVars, pglog, published, signalVars, rc, wake>>

\* pg_log_refresh_internal: the for loop with its inserts, SPI_finish
RefreshInsert ==
    /\ pc = "insert"
    /\ \E first \in {SplitStart(g_logdata, pg_log_fraction)} :
       \E done \in {PgLogRefreshLoop(g_result, pad, first)} :
       \E inserted \in BOOLEAN :
          /\ g_logdata' = done.ld
          /\ probe' = [size |-> probe.size, start |-> first.ld.char_count,
                       maxRead |-> Max(probe.maxRead, done.maxRead),
                       maxWrite |-> done.maxWrite]
          /\ IF ~inserted /\ done.rows # <<>>
             THEN \* SPI_execute_plan fails on the first row
                  /\ txTable' = <<>>
                  /\ RaiseError("insert", 0)
             ELSE /\ txTable' = done.rows
                  /\ IF done.err # "none"
                     THEN RaiseError(done.err, done.errLine)
                     ELSE pc' = "commit" /\ UNCHANGED <<ret, pglog, published>>
    /\ UNCHANGED <<file, bk, termCycles, conf, gucVars, g_result, pad, tupstore, signalVars, rc, wake>>

\* PopActiveSnapshot, CommitTransactionCommand
CommitTransaction ==
    /\ pc = "commit"
    /\ pglog' = txTable
    /\ published' = [fraction |-> pg_log_fraction, whole |-> probe.size = Len(file)]
    /\ pc' = "loop"
    /\ g_result' = <<>>
    /\ pad' = <<>>
    /\ probe' = NoProbe
    /\ UNCHANGED <<file, bk, termCycles, conf, gucVars, g_logdata, tupstore, ret, txTable, signalVars, rc, wake>>

Worker ==
    \/ MainStart
    \/ LoopTest
    \/ WaitLatch
    \/ ResetLatch
    \/ CheckSighup
    \/ StartTransaction
    \/ RefreshRead
    \/ RefreshTruncate
    \/ RefreshInsert
    \/ CommitTransaction

Next ==
    \/ Worker
    \/ pg_log_sigterm
    \/ pg_log_sighup
    \/ EditConf

Spec == Init /\ [][Next]_vars

---------------------------------------------------------------------------
(* FairSpec: the worker as scheduled, on one log file and with the two     *)
(* signals as its environment. A process that can take a step takes it;    *)
(* WaitLatch is sure to return only when the latch is set, its timeout     *)
(* being left out of what is sure to happen.                               *)

InitFair ==
    /\ Init
    /\ file = <<"a", NL>>
    /\ conf = [fraction |-> <<1, 1>>, naptime |-> 2]

NextFair ==
    \/ Worker
    \/ pg_log_sigterm
    \/ pg_log_sighup

WorkerProgress ==
    \/ LoopTest
    \/ (latch /\ WaitLatch)
    \/ ResetLatch
    \/ CheckSighup
    \/ StartTransaction
    \/ RefreshRead
    \/ RefreshTruncate
    \/ RefreshInsert
    \/ CommitTransaction

FairSpec == InitFair /\ [][NextFair]_vars /\ WF_vars(WorkerProgress)

---------------------------------------------------------------------------
(* SpecBoth: the worker and, in a process of its own, a client backend     *)
(* that calls pg_log() again and again. g_result and g_logdata are static  *)
(* variables of the library, one copy in each process that loads it.       *)

\* pg_log_internal in the backend: pg_read_internal
BkReadShared ==
    /\ bk.pc = "idle"
    /\ \E io \in ReadOutcomes :
          IF io # "ok"
          THEN UNCHANGED <<bk, g_result, pad, g_logdata>>
          ELSE \E size \in StatSizes(file) : \E pd \in Pads :
               \E rd \in {pg_read_internal(size, file, conf.fraction, pd)} :
                  /\ bk' = [pc |-> "split", g_result |-> rd.result, pad |-> pd,
                            g_logdata |-> rd.ld, rows |-> <<>>]
                  /\ g_result' = rd.result
                  /\ pad' = pd
                  /\ g_logdata' = rd.ld
    /\ UNCHANGED <<file, conf, gucVars, tupstore, ret, probe, tableVars, workerVars,
                   termCycles>>

\* pg_log_internal in the backend, whose pg_log.fraction is the one of
\* postgresql.conf: pg_read_internal
BkRead ==
    /\ bk.pc = "idle"
    /\ \E io \in ReadOutcomes :
          IF io # "ok"
          THEN bk' = bk
          ELSE \E size \in StatSizes(file) : \E pd \in Pads :
               \E rd \in {pg_read_internal(size, file, conf.fraction, pd)} :
                  bk' = [pc |-> "split", g_result |-> rd.result, pad |-> pd,
                         g_logdata |-> rd.ld, rows |-> <<>>]
    /\ UNCHANGED <<file, conf, gucVars, callVars, tableVars, workerVars, termCycles>>

\* pg_log_internal in the backend: the for loop, return
BkSplit ==
    /\ bk.pc = "split"
    /\ \E done \in {PgLogLoop(bk.g_result, bk.pad,
                                SplitStart(bk.g_logdata, conf.fraction))} :
          bk' = [bk EXCEPT !.pc = "idle", !.g_logdata = done.ld, !.rows = done.rows]
    /\ UNCHANGED <<file, conf, gucVars, callVars, tableVars, workerVars, termCycles>>

\* a log file of two lines; the worker sleeps in WaitLatch and pg_log_sigterm
\* has just run, so that it has its last cycle before it; the backend has
\* not called pg_log() yet
InitBoth ==
    /\ file = <<"a", NL, "a", NL>>
    /\ conf = [fraction |-> <<1, 1>>, naptime |-> 2]
    /\ pg_log_fraction = conf.fraction
    /\ pg_log_naptime = conf.naptime
    /\ g_result = <<>>
    /\ pad = <<>>
    /\ g_logdata = ZeroLogdata
    /\ tupstore = <<>>
    /\ pglog = OldTable
    /\ txTable = <<>>
    /\ ret = NoCall
    /\ probe = NoProbe
    /\ published = NotPublished
    /\ pc = "wait"
    /\ got_sighup = FALSE
    /\ got_sigterm = TRUE
    /\ latch = TRUE
    /\ rc = FALSE
    /\ wake = NoWake
    /\ termCycles = 0
    /\ bk = IdleBackend

NextBoth ==
    \/ LoopTest
    \/ WaitLatch
    \/ ResetLatch
    \/ CheckSighup
    \/ StartTransaction
    \/ RefreshRead
    \/ RefreshTruncate
    \/ RefreshInsert
    \/ CommitTransaction
    \/ BkRead
    \/ BkSplit

SpecBoth == InitBoth /\ [][NextBoth]_vars

---------------------------------------------------------------------------
(* What the claims speak of, computed from the bytes alone *)

\* index of the first newline of b, -1 when there is none
FirstNewline(b) ==
    IF \E k \in 1..Len(b) : b[k] = NL
    THEN (CHOOSE k \in 1..Len(b) : b[k] = NL /\ \A j \in 1..(k - 1) : b[j] # NL) - 1
    ELSE -1

\* number of newlines of b at index from or later
NewlinesFrom(b, from) == Cardinality({k \in 1..Len(b) : k - 1 >= from /\ b[k] = NL})

\* the newline-terminated lines of b, in order, without their newline; a
\* trailing unterminated fragment is left out
RECURSIVE CompleteLines(_)
CompleteLines(b) ==
    LET p == FirstNewline(b)
    IN IF p = -1 THEN <<>>
       ELSE <<SubSeq(b, 1, p)>> \o CompleteLines(SubSeq(b, p + 2, Len(b)))

\* length of the longest run of bytes of b with no newline in it
LongestRun(b) ==
    LET runs == {r \in (0..Len(b)) \X (0..Len(b)) :
                    r[1] < r[2] /\ \A k \in (r[1] + 1)..r[2] : b[k] # NL}
    IN IF runs = {} THEN 0
       ELSE LET r == CHOOSE x \in runs : \A y \in runs : y[2] - y[1] <= x[2] - x[1]
            IN r[2] - r[1]

Messages(rows) == [k \in 1..Len(rows) |-> rows[k].message]

\* the last call fetched a buffer and scanned it
Scanned == ret.op # "none" /\ ret.err \in {"none", "toolong"}

\* the rows the last call produced
Emitted == IF ret.op = "pg_log" THEN tupstore ELSE txTable

\* the bytes of the buffer from the cursor's start on
ScannedRange == SubSeq(g_result, probe.start + 1, Len(g_result))

\* the file held at the read the st_size bytes it had at the stat
FileUnchanged == probe.size = Len(file)

\* pg_read_file returned fewer bytes than the length computed from st_size
ShortRead == ret.op # "none" /\ Len(g_result) < TailLength(probe.size, pg_log_fraction)

\* the scans met no newline after the data of the buffer
PadHasNoNewline == \A k \in 1..Len(pad) : pad[k] # NL

---------------------------------------------------------------------------
(* Claims on one call, checked under SpecCall *)

\* C1: with fraction < 1 and a fetched buffer that holds a newline, the
\* recorded alignment position is the index of the first newline of the
\* buffer, also when that index is 0, and the line split starts at the byte
\* right after it. Stated for the calls that met no newline after the buffer.
C1_AlignsOnFirstNewline ==
    (Scanned /\ ~FractionIsOne(pg_log_fraction) /\ FirstNewline(g_result) # -1
        /\ PadHasNoNewline)
        => /\ g_logdata.first_newline_position = FirstNewline(g_result)
           /\ probe.start = FirstNewline(g_result) + 1

\* C2: with fraction = 1 and a file whose lines all fit in the line buffer,
\* the cursor starts at 0, the call raises no error and the emitted texts are,
\* in order, the newline-terminated lines of the whole file. Stated for the
\* files that did not change between the stat and the read.
C2_WholeFileLines ==
    (Scanned /\ FileUnchanged /\ FractionIsOne(pg_log_fraction)
        /\ LongestRun(file) <= PG_LOG_MAX_LINE_SIZE)
        => /\ probe.start = 0
           /\ ret.err = "none"
           /\ Messages(Emitted) = CompleteLines(file)

\* C3: a call that raises no error emits as many lines as the fetched
\* buffer has newlines at or after the cursor's start, and no emitted text
\* holds a byte from after the buffer's last newline.
C3_NoLineAfterLastNewline ==
    (Scanned /\ ret.err = "none")
        => /\ Len(Emitted) = NewlinesFrom(g_result, probe.start)
           /\ Messages(Emitted) =
                  CompleteLines(SubSeq(g_result, probe.start + 1, Len(g_result)))

\* C4: a call fails with the line-too-long error exactly when some line of
\* the scanned range holds more than PG_LOG_MAX_LINE_SIZE bytes before its
\* newline, whether that line is the first of the call or a later one. The
\* "only when" half is stated for the errors raised on a byte of the buffer.
C4_TooLongIffOverMax ==
    Scanned
        => /\ LongestRun(ScannedRange) > PG_LOG_MAX_LINE_SIZE => ret.err = "toolong"
           /\ (ret.err = "toolong" /\ g_logdata.char_count < Len(g_result))
                => LongestRun(ScannedRange) > PG_LOG_MAX_LINE_SIZE

\* C5: in pg_log() and in pg_log_refresh() alike the k-th emitted line,
\* k = 0, 1, 2, ..., carries line number k. Stated for the calls that met no
\* newline after the buffer.
C5_NumberedFromZero ==
    (Scanned /\ PadHasNoNewline)
        => /\ ret.op = "pg_log"
                => \A k \in 1..Len(tupstore) : tupstore[k].lineno = k - 1
           /\ ret.op = "pg_log_refresh"
                => \A k \in 1..Len(txTable) : txTable[k].id = k - 1

\* C6: on the same file and with the same fraction, a pg_log() call and a
\* pg_log_refresh() call that both succeed produce the same texts in the
\* same order. Stated for the files that did not change between the stat
\* and the read.
C6_PullEqualsPush ==
    (ret.op = "pg_log" /\ ret.err = "none" /\ FileUnchanged)
        => \A pd \in Pads :
              LET rd == pg_read_internal(Len(file), file, pg_log_fraction, pd)
                  push == PgLogRefreshLoop(rd.result, pd, SplitStart(rd.ld, pg_log_fraction))
              IN push.err = "none" => Messages(push.rows) = Messages(tupstore)

---------------------------------------------------------------------------
(* Claims on the worker, checked under Spec *)

\* the step that opens the transaction of a cycle
StartsCycle == pc = "start" /\ pc' = "read"

\* C7: a wake-up that finds a terminate signal pending starts no cycle.
C7_TermAtWakeStartsNoCycle == [][StartsCycle => ~wake.term]_vars

\* C8 as claimed: a wake-up that finds a reload signal pending starts no
\* cycle.
C8_ReloadAtWakeStartsNoCycle == [][StartsCycle => ~wake.hup]_vars

\* C8 amended: a wake-up that finds a reload signal pending clears the flag
\* and rereads the configuration, and then goes on to open the transaction
\* of a cycle in that same wake-up.
C8_ReloadThenCycle ==
    [][/\ (pc = "sighup" /\ wake.hup /\ pc' # pc)
            => /\ ~got_sighup'
               /\ pg_log_fraction' = conf.fraction
               /\ pg_log_naptime' = conf.naptime
               /\ pc' = "start"
       /\ (pc = "start" /\ pc' # pc) => pc' = "read"]_vars

\* a wake-up that found a reload signal pending has reread the configuration
\* and stands at the start of its cycle
C8_Witness ==
    /\ pc = "start"
    /\ wake.hup
    /\ ~got_sighup
    /\ pg_log_fraction = conf.fraction
    /\ pg_log_naptime = conf.naptime

\* errors a cycle raises
CycleErrors == {"locator", "stat", "toolong", "insert"}

\* C9: an error raised by a cycle never ends the worker.
C9_CycleErrorKeepsWorker == ret.err \in CycleErrors => pc # "exit"

\* id and message of the lines the split walks: the complete lines of the
\* bytes from the cursor's start on, numbered from 1
CycleRows ==
    LET from == IF FractionIsOne(pg_log_fraction) THEN 0
                ELSE g_logdata.first_newline_position + 1
        walked == g_result \o pad
        lines == CompleteLines(SubSeq(walked, from + 1, Len(walked)))
    IN [k \in 1..Len(lines) |-> [id |-> k, message |-> lines[k]]]

---------------------------------------------------------------------------
(* Further claims on the worker, checked under Spec *)

\* the step that commits a cycle
CommitsCycle == pc = "commit" /\ pc' = "loop"

\* C11: a push cycle that commits after another one, on a file that did not
\* change and under the same fraction, leaves in the table the rows the
\* first one left.
C11_SecondCycleSameRows ==
    [][(CommitsCycle /\ FileUnchanged
            /\ published = [fraction |-> pg_log_fraction, whole |-> TRUE])
          => pglog' = pglog]_vars

---------------------------------------------------------------------------
(* Further claims on one call, checked under SpecCall *)

C13_NoNewlineNoLines ==
    (/\ Scanned
     /\ ~FractionIsOne(pg_log_fraction)
     /\ FirstNewline(g_result) = -1
     /\ PadHasNoNewline
     /\ ret.err = "toolong" => g_logdata.char_count < Len(g_result))
        => (Emitted = <<>> /\ ret.err = "none")

\* C14: every write of the line split into buf_v2 is at an index below
\* PG_LOG_MAX_LINE_SIZE.
C14_WritesInBounds == Scanned => probe.maxWrite < PG_LOG_MAX_LINE_SIZE

\* the bytes the scans walk: the buffer, then what lies after it
Walked == g_result \o pad

\* C15: the line number reported with the line-too-long error is the number
\* of lines the call had emitted, plus one: the 1-based index, counted from
\* the cursor's start, of the line the error was raised in.
C15_ErrorLineNumber ==
    (Scanned /\ ret.err = "toolong")
        => /\ ret.errLine = Len(Emitted) + 1
           /\ ret.errLine =
                 1 + Cardinality({k \in probe.start..(g_logdata.char_count - 1) :
                                     Walked[k + 1] = NL})

\* a pg_log_refresh() call failed in its third line
C15_Witness ==
    /\ ret.op = "pg_log_refresh"
    /\ ret.err = "toolong"
    /\ ret.errLine = 3
    /\ Len(txTable) = 2

\* C16: a fetched buffer of length 0 yields no line and no error, in
\* pg_log() and in pg_log_refresh().
C16_EmptyBufferNoLines ==
    (Scanned /\ g_result = <<>>) => (Emitted = <<>> /\ ret.err = "none")

\* C19: every index the diagnostic scan and the line splits read lies in
\* [0, length), length the number of data bytes pg_read_file returned.
C19_ReadsInBounds == Scanned => probe.maxRead < Len(g_result)

\* offset and length as the last call computed them from st_size
ReadOffset == TailOffset(probe.size, pg_log_fraction)

ReadLength == TailLength(probe.size, pg_log_fraction)

\* C21: for every file size and every fraction in (0,1] the byte range the
\* call computes has 0 <= offset and offset + length = st_size, so that the
\* range ends at the last byte of the file.
C21_RangeReachesLastByte ==
    Scanned => /\ 0 <= ReadOffset
               /\ ReadOffset + ReadLength = probe.size

---------------------------------------------------------------------------
(* Claims on the configuration of the worker, checked under Spec *)

\* the worker is inside the unit of work of a cycle
InCycle == pc \in {"read", "truncate", "insert", "commit"}

\* C17: pg_log_fraction and pg_log_naptime change only in the reload step
\* of a wake-up, before its cycle; from the start of a cycle's transaction to
\* its commit no step changes them, and a reload signal arriving then only
\* sets got_sighup (and the latch).
C17_ReloadOnlyBetweenCycles ==
    [][/\ gucVars' # gucVars
            => (pc = "sighup" /\ pc' = "start" /\ got_sighup /\ ~got_sighup')
       /\ (InCycle \/ StartsCycle) => gucVars' = gucVars
       /\ (InCycle /\ got_sighup' /\ ~got_sighup)
            => UNCHANGED <<file, bk, termCycles, conf, gucVars, callVars, tableVars, pc,
                           got_sigterm, rc, wake>>]_vars

\* a reload signal is pending inside a cycle that runs under settings other
\* than those of postgresql.conf
C17_Witness ==
    /\ pc = "insert"
    /\ got_sighup
    /\ pg_log_fraction # conf.fraction
    /\ pg_log_naptime # conf.naptime

---------------------------------------------------------------------------
(* Claims on the two processes, checked under SpecBoth *)

\* the buffer and the cursor of the worker's process
workerStatics == <<g_result, pad, g_logdata>>

---------------------------------------------------------------------------
(* Claims on termination, checked under FairSpec *)

\* C20: once pg_log_sigterm has run, at whatever point of the loop, the
\* worker exits in the end, and it starts one cycle at most before it does.
C20_TermEndsWorker == [](termCycles <= 1) /\ (got_sigterm ~> pc = "exit")

\* the worker has exited on SIGTERM after one more cycle
C20_Witness ==
    /\ pc = "exit"
    /\ got_sigterm
    /\ termCycles = 1
    /\ ret.err = "none"

====
